---- MODULE Spec2Model ----
(***************************************************************************)
(* Model of the report page of GBP-App ("src/Report Page"): the CSV        *)
(* utilities (splitCSVLine, parseDate, parseCSV, identifyColumns) and the  *)
(* React components App, FilterBar and DataTable.                          *)
(*                                                                         *)
(* A JavaScript string is a sequence of one-character strings, so that     *)
(* trimming, quoting, case folding and pattern matching are computed and   *)
(* not assumed.  A JavaScript object ({} with string keys) is a sequence   *)
(* of <<key, value>> pairs in the order Object.keys reports them.          *)
(***************************************************************************)
EXTENDS Integers, Sequences, FiniteSets, TLC

VARIABLES
    activeTab,    \* App: useState(REPORTS[0].id)
    data,         \* App: useState<LogEntry[]>([])
    loading,      \* App: useState(true)
    columns,      \* App: useState<ColumnDefinition[]>([])
    filters,      \* App: useState<FilterState>({})
    sortConfig,   \* DataTable: useState(null)
    searchTerm,   \* DataTable: useState('')
    entriesPerPage, \* DataTable: useState(10)
    currentPage,  \* DataTable: useState(1)
    inflight,     \* the reports of the fetchData calls waiting for the network
    settled,      \* the fetch the network has answered and fetchData is about to resume from
    pc,           \* position of the function call modelled by a function specification
    input,        \* argument of that call
    output        \* its return value

vars == <<activeTab, data, loading, columns, filters, sortConfig, searchTerm,
          entriesPerPage, currentPage, inflight, settled, pc, input, output>>

\* the state DataTable keeps for the search box, the page size and the page
tableVars == <<searchTerm, entriesPerPage, currentPage>>

appVars == <<activeTab, data, loading, columns, filters, sortConfig, tableVars, inflight,
             settled>>

----------------------------------------------------------------------------
(* Bounds of the model *)

MaxLineLen == 5

----------------------------------------------------------------------------
(* JavaScript values *)

\* undefined, where a string may stand: no string has an element like this one
Undefined == <<"<undefined>">>
NaN == <<>>
\* null, where an object may stand
Null == [null |-> TRUE]
\* the result of String.prototype.match that found nothing
NoMatch == <<>>

QUOTE == "\""
COMMA == ","
LF == "\n"
CR == "\r"

WhiteSpace == {" ", "\t", LF, CR}

UPPER == <<"A","B","C","D","E","F","G","H","I","J","K","L","M",
           "N","O","P","Q","R","S","T","U","V","W","X","Y","Z">>
LOWER == <<"a","b","c","d","e","f","g","h","i","j","k","l","m",
           "n","o","p","q","r","s","t","u","v","w","x","y","z">>
Digits == <<"0","1","2","3","4","5","6","7","8","9">>

IsDigit(c) == \E i \in 1..10 : Digits[i] = c
DigitVal(c) == (CHOOSE i \in 1..10 : Digits[i] = c) - 1

LowerChar(c) == IF \E i \in 1..26 : UPPER[i] = c
                THEN LOWER[CHOOSE i \in 1..26 : UPPER[i] = c] ELSE c
UpperChar(c) == IF \E i \in 1..26 : LOWER[i] = c
                THEN UPPER[CHOOSE i \in 1..26 : LOWER[i] = c] ELSE c

\* String.prototype.toLowerCase
ToLowerCase(s) == [i \in 1..Len(s) |-> LowerChar(s[i])]

\* String.prototype.trim
RECURSIVE TrimStart(_)
TrimStart(s) == IF s # <<>> /\ Head(s) \in WhiteSpace THEN TrimStart(Tail(s)) ELSE s
RECURSIVE TrimEnd(_)
TrimEnd(s) == IF s # <<>> /\ s[Len(s)] \in WhiteSpace
              THEN TrimEnd(SubSeq(s, 1, Len(s) - 1)) ELSE s
Trim(s) == TrimEnd(TrimStart(s))

\* String.prototype.includes
Includes(s, t) == \E i \in 1..(Len(s) - Len(t) + 1) : SubSeq(s, i, i + Len(t) - 1) = t

\* all strings over an alphabet up to a length
RECURSIVE StringsUpTo(_, _)
StringsUpTo(alphabet, n) ==
    IF n = 0 THEN {<<>>}
    ELSE LET shorter == StringsUpTo(alphabet, n - 1)
         IN  shorter \cup {Append(s, c) : s \in {t \in shorter : Len(t) = n - 1}, c \in alphabet}


----------------------------------------------------------------------------
(* utils: splitCSVLine *)

\* val.replace(/^"|"$/g, '')
StripQuotes(val) ==
    LET s1 == IF val # <<>> /\ Head(val) = QUOTE THEN Tail(val) ELSE val
    IN  IF s1 # <<>> /\ s1[Len(s1)] = QUOTE THEN SubSeq(s1, 1, Len(s1) - 1) ELSE s1

\* val.replace(/""/g, '"')
RECURSIVE CollapseQuotes(_)
CollapseQuotes(val) ==
    IF Len(val) < 2 THEN val
    ELSE IF val[1] = QUOTE /\ val[2] = QUOTE
         THEN <<QUOTE>> \o CollapseQuotes(SubSeq(val, 3, Len(val)))
         ELSE <<val[1]>> \o CollapseQuotes(Tail(val))

\* the for loop of splitCSVLine from index i on, then the final push
RECURSIVE SplitLoop(_, _, _, _, _)
SplitLoop(line, i, current, inQuotes, result) ==
    IF i > Len(line) THEN Append(result, Trim(current))
    ELSE LET char == line[i]
         IN  IF char = QUOTE
             THEN SplitLoop(line, i + 1, current, ~inQuotes, result)
             ELSE IF char = COMMA /\ ~inQuotes
             THEN SplitLoop(line, i + 1, <<>>, inQuotes, Append(result, Trim(current)))
             ELSE SplitLoop(line, i + 1, Append(current, char), inQuotes, result)

splitCSVLine(line) ==
    LET result == SplitLoop(line, 1, <<>>, FALSE, <<>>)
    IN  [k \in 1..Len(result) |-> CollapseQuotes(StripQuotes(result[k]))]

----------------------------------------------------------------------------
(* JavaScript objects used as maps: LogEntry, FilterState *)

\* Object.keys(obj)
ObjectKeys(obj) == [i \in 1..Len(obj) |-> obj[i][1]]

HasOwn(obj, key) == \E i \in 1..Len(obj) : obj[i][1] = key

\* obj[key]
Get(obj, key) ==
    IF HasOwn(obj, key) THEN obj[CHOOSE i \in 1..Len(obj) : obj[i][1] = key][2]
    ELSE Undefined

\* String(value) of a value read from a LogEntry
String(value) ==
    IF value = Undefined THEN <<"u","n","d","e","f","i","n","e","d">> ELSE value

\* truthiness of a value read from a LogEntry
Truthy(value) == value # Undefined /\ value # <<>>

RECURSIVE DecimalValue(_)
DecimalValue(s) ==
    IF s = <<>> THEN 0 ELSE 10 * DecimalValue(SubSeq(s, 1, Len(s) - 1)) + DigitVal(s[Len(s)])

AllDigits(s) == \A i \in 1..Len(s) : IsDigit(s[i])

\* an array index ("0", "7", "12"): such keys are enumerated first, in
\* ascending numeric order, whatever the order they were added in
IsArrayIndex(key) ==
    /\ key # <<>>
    /\ Len(key) <= 9
    /\ AllDigits(key)
    /\ (Len(key) > 1 => key[1] # "0")

ProtoKey == <<"_","_","p","r","o","t","o","_","_">>

\* entry[key] = value, for an entry created by {} and a string value
SetProperty(obj, key, value) ==
    IF key = ProtoKey THEN obj  \* the inherited __proto__ setter ignores a string
    ELSE IF HasOwn(obj, key)
    THEN [i \in 1..Len(obj) |-> IF obj[i][1] = key THEN <<key, value>> ELSE obj[i]]
    ELSE IF IsArrayIndex(key)
    THEN LET before == {i \in 1..Len(obj) :
                           /\ IsArrayIndex(obj[i][1])
                           /\ DecimalValue(obj[i][1]) < DecimalValue(key)}
             n == Cardinality(before)
         IN  SubSeq(obj, 1, n) \o <<<<key, value>>>> \o SubSeq(obj, n + 1, Len(obj))
    ELSE Append(obj, <<key, value>>)

----------------------------------------------------------------------------
(* utils: parseCSV *)

\* text.split(/\r?\n/): the pieces between the line feeds, a carriage return
\* right before a line feed being part of the separator
SplitLines(text) ==
    LET breaks == {i \in 1..Len(text) : text[i] = LF}
        Nth(n) == CHOOSE i \in breaks : Cardinality({j \in breaks : j < i}) = n - 1
        StartOf(n) == IF n = 1 THEN 1 ELSE Nth(n - 1) + 1
        EndOf(n, start) ==
            IF n > Cardinality(breaks) THEN Len(text)
            ELSE IF Nth(n) > start /\ text[Nth(n) - 1] = CR THEN Nth(n) - 2
            ELSE Nth(n) - 1
    IN  [n \in 1..(Cardinality(breaks) + 1) |->
            SubSeq(text, StartOf(n), EndOf(n, StartOf(n)))]

\* .filter(line => line.trim() !== '')
NonBlankLines(text) == SelectSeq(SplitLines(text), LAMBDA line : Trim(line) # <<>>)

\* headers.forEach((header, index) => { entry[header.trim()] = currentLine[index] })
RECURSIVE ZipEntry(_, _, _, _)
ZipEntry(headers, currentLine, index, entry) ==
    IF index > Len(headers) THEN entry
    ELSE ZipEntry(headers, currentLine, index + 1,
                  SetProperty(entry, Trim(headers[index]), currentLine[index]))

\* the for loop over lines[1..] of parseCSV
RECURSIVE ParseRows(_, _, _, _)
ParseRows(lines, headers, i, rows) ==
    IF i > Len(lines) THEN rows
    ELSE LET currentLine == splitCSVLine(lines[i])
         IN  IF Len(currentLine) = Len(headers)
             THEN ParseRows(lines, headers, i + 1,
                            Append(rows, ZipEntry(headers, currentLine, 1, <<>>)))
             ELSE ParseRows(lines, headers, i + 1, rows)

\* the body of the try block of parseCSV once response.text() has resolved
ParseText(text) ==
    LET lines == NonBlankLines(text)
    IN  IF Len(lines) < 2 THEN <<>>
        ELSE ParseRows(lines, splitCSVLine(lines[1]), 2, <<>>)

\* a response of fetch(url): the request rejects (network error), or resolves
\* with ok false, or resolves with ok true and a body
NetworkError == [kind |-> "reject"]
HttpError == [kind |-> "resolve", ok |-> FALSE, text |-> <<>>]
HttpOk(text) == [kind |-> "resolve", ok |-> TRUE, text |-> text]

\* a parseCSV that lets the failure reach its caller
ParseCSVRethrows == [thrown |-> TRUE, value |-> <<>>]

\* what the catch block of parseCSV does with a failure: it returns []
ParseCSVOnFailure == [thrown |-> FALSE, value |-> <<>>]

\* parseCSV(url), given the response the fetch produces: the value it resolves
\* with, or thrown when it rejects
parseCSV(response) ==
    IF response.kind = "reject" \/ ~response.ok
    THEN ParseCSVOnFailure
    ELSE [thrown |-> FALSE, value |-> ParseText(response.text)]
----------------------------------------------------------------------------
(* utils: parseDate *)

\* A time value (the result of getTime() or Date.parse) is <<days, seconds>>:
\* whole days since 1970-01-01 and seconds into that day; the JavaScript number
\* is (days * 86400 + seconds) * 1000.  NaN is <<>>.  Local time is taken to
\* be UTC.
isNaN(t) == t = NaN

\* dateA - dateB, as a sign
TimeDiffSign(a, b) ==
    IF a[1] # b[1] THEN (IF a[1] < b[1] THEN -1 ELSE 1)
    ELSE IF a[2] # b[2] THEN (IF a[2] < b[2] THEN -1 ELSE 1)
    ELSE 0

\* days from 1970-01-01 to the first day of month (1..12) of year
DaysFromCivil(year, month) ==
    LET y == IF month <= 2 THEN year - 1 ELSE year
        era == y \div 400
        yoe == y - era * 400
        mp == IF month > 2 THEN month - 3 ELSE month + 9
        doy == (153 * mp + 2) \div 5
        doe == yoe * 365 + yoe \div 4 - yoe \div 100 + doy
    IN  era * 146097 + doe - 719468

\* new Date(year, month, day, hour, minute, second).getTime(), month 0-based;
\* a day past the end of the month, or an hour past 23, carries over
MakeDate(year, month, day, hour, minute, second) ==
    LET secs == hour * 3600 + minute * 60 + second
    IN  <<DaysFromCivil(year, month + 1) + (day - 1) + secs \div 86400, secs % 86400>>

DigitChars == {Digits[i] : i \in 1..10}
DateSeparators == {"/", ".", "-"}

\* the number of characters of s, from index i on, that are in chars
RECURSIVE RunOf(_, _, _)
RunOf(s, i, chars) ==
    IF i <= Len(s) /\ s[i] \in chars THEN 1 + RunOf(s, i + 1, chars) ELSE 0

\* number of digits s has from index i on
DigitRun(s, i) == RunOf(s, i, DigitChars)

CharAt(s, i) == IF i >= 1 /\ i <= Len(s) THEN s[i] ELSE ""

\* A piece of a regular expression: min to max characters of a class (max -1:
\* any number).  In the patterns below no piece can take a character of the
\* piece after it, so a piece matches its whole run or the match fails.
Token(chars, min, max) == [chars |-> chars, min |-> min, max |-> max]

\* the index after the piece tok matched at index p; 0 when it does not match
\* there or the pieces before it failed (p = 0)
ScanToken(d, p, tok) ==
    LET n == RunOf(d, p, tok.chars)
    IN  IF p = 0 \/ n < tok.min \/ (tok.max >= 0 /\ n > tok.max) THEN 0 ELSE p + n

\* the indices after each piece of the pattern, matched from the start of d
RECURSIVE ScanAll(_, _, _)
ScanAll(d, pattern, ends) ==
    IF Len(ends) = Len(pattern) THEN ends
    ELSE ScanAll(d, pattern,
                 Append(ends, ScanToken(d, IF ends = <<>> THEN 1 ELSE ends[Len(ends)],
                                        pattern[Len(ends) + 1])))

\* /^(\d{1,2})[\/.-](\d{1,2})[\/.-](\d{2,4})(?:\s+(\d{1,2}):(\d{1,2})(?::(\d{1,2}))?)?$/
dmyRegex ==
    <<Token(DigitChars, 1, 2), Token(DateSeparators, 1, 1),
      Token(DigitChars, 1, 2), Token(DateSeparators, 1, 1),
      Token(DigitChars, 2, 4),
      Token(WhiteSpace, 1, -1), Token(DigitChars, 1, 2), Token({":"}, 1, 1),
      Token(DigitChars, 1, 2), Token({":"}, 1, 1), Token(DigitChars, 1, 2)>>

\* the groups 1..6 of dmyRegex as strings (<<>> where JavaScript has undefined)
\* for the indices q that ScanAll found in d, or NoMatch: the match ends after
\* the year, after the minutes or after the seconds
GroupsDMY(d, q) ==
    LET date == <<SubSeq(d, 1, q[1] - 1), SubSeq(d, q[2], q[3] - 1), SubSeq(d, q[4], q[5] - 1)>>
        hm == <<SubSeq(d, q[6], q[7] - 1), SubSeq(d, q[8], q[9] - 1)>>
    IN  IF q[5] = Len(d) + 1 THEN date \o <<<<>>, <<>>, <<>>>>
        ELSE IF q[9] = Len(d) + 1 THEN date \o hm \o <<<<>>>>
        ELSE IF q[11] = Len(d) + 1 THEN date \o hm \o <<SubSeq(d, q[10], q[11] - 1)>>
        ELSE NoMatch

\* d.match(dmyRegex)
MatchDMY(d) == GroupsDMY(d, ScanAll(d, dmyRegex, <<>>))

DaysInMonth(year, month) ==
    IF month = 2
    THEN (IF year % 4 = 0 /\ (year % 100 # 0 \/ year % 400 = 0) THEN 29 ELSE 28)
    ELSE IF month \in {4, 6, 9, 11} THEN 30 ELSE 31

\* the time value of a calendar date Date.parse has read, NaN when there is
\* no such day
DateOfFields(year, month, day) ==
    IF month >= 1 /\ month <= 12 /\ day >= 1 /\ day <= DaysInMonth(year, month)
    THEN MakeDate(year, month - 1, day, 0, 0, 0)
    ELSE NaN

\* YYYY-MM-DD
ISODate == <<Token(DigitChars, 4, 4), Token({"-"}, 1, 1), Token(DigitChars, 2, 2),
             Token({"-"}, 1, 1), Token(DigitChars, 2, 2)>>
\* M/D/YYYY
USDate == <<Token(DigitChars, 1, 2), Token({"/"}, 1, 1), Token(DigitChars, 1, 2),
            Token({"/"}, 1, 1), Token(DigitChars, 4, 4)>>

\* the three numbers of a date of three digit runs, whose ends are q
DateFields(d, q) ==
    <<DecimalValue(SubSeq(d, 1, q[1] - 1)), DecimalValue(SubSeq(d, q[2], q[3] - 1)),
      DecimalValue(SubSeq(d, q[4], q[5] - 1))>>

ParseISODate(d, q) ==
    IF q[5] = Len(d) + 1
    THEN DateOfFields(DateFields(d, q)[1], DateFields(d, q)[2], DateFields(d, q)[3])
    ELSE NaN

ParseUSDate(d, q) ==
    IF q[5] = Len(d) + 1
    THEN DateOfFields(DateFields(d, q)[3], DateFields(d, q)[1], DateFields(d, q)[2])
    ELSE NaN

\* the first of two time values that is a number
FirstNumber(first, second) == IF ~isNaN(first) THEN first ELSE second

\* Date.parse(d), the platform's parser, for the forms every engine reads the
\* same way: the ISO date YYYY-MM-DD and the US date M/D/YYYY; a string
\* without any digit is not a date.  (The bounded inputs contain no other
\* form: on those the engines differ.)
DateParse(d) ==
    FirstNumber(ParseISODate(d, ScanAll(d, ISODate, <<>>)),
                ParseUSDate(d, ScanAll(d, USDate, <<>>)))

\* a parser that reads the first number as the month and the second as the day
ParseMatchedMonthFirst(d, match) ==
    LET day == DecimalValue(match[2])
        month == DecimalValue(match[1]) - 1
        yearPart == DecimalValue(match[3])
        year == IF yearPart < 100 THEN yearPart + 2000 ELSE yearPart
        hour == IF match[4] # <<>> THEN DecimalValue(match[4]) ELSE 0
        minute == IF match[5] # <<>> THEN DecimalValue(match[5]) ELSE 0
        second == IF match[6] # <<>> THEN DecimalValue(match[6]) ELSE 0
    IN  IF match # NoMatch /\ month >= 0 /\ month <= 11 /\ day >= 1 /\ day <= 31
        THEN MakeDate(year, month, day, hour, minute, second)
        ELSE DateParse(d)
\* parseDate from "if (match)" on: the date of the groups when the regex
\* matched and month and day pass the check, Date.parse(d) otherwise
ParseMatched(d, match) ==
    LET day == DecimalValue(match[1])
        month == DecimalValue(match[2]) - 1
        yearPart == DecimalValue(match[3])
        year == IF yearPart < 100 THEN yearPart + 2000 ELSE yearPart
        hour == IF match[4] # <<>> THEN DecimalValue(match[4]) ELSE 0
        minute == IF match[5] # <<>> THEN DecimalValue(match[5]) ELSE 0
        second == IF match[6] # <<>> THEN DecimalValue(match[6]) ELSE 0
    IN  IF match # NoMatch /\ month >= 0 /\ month <= 11 /\ day >= 1 /\ day <= 31
        THEN MakeDate(year, month, day, hour, minute, second)
        ELSE DateParse(d)

\* String(dateStr).trim(), then the rest of parseDate
ParseTrimmed(d) == IF d = <<>> THEN NaN ELSE ParseMatched(d, MatchDMY(d))

parseDate(dateStr) == ParseTrimmed(Trim(String(dateStr)))

\* a string literal of the source as a string of the model
StrDate == <<"d","a","t","e">>
StrTimestamp == <<"t","i","m","e","s","t","a","m","p">>
StrTime == <<"t","i","m","e">>

----------------------------------------------------------------------------
(* utils: identifyColumns *)

\* val.replace(/,/g, '')
StripCommas(s) == SelectSeq(s, LAMBDA c : c # COMMA)

\* A number is <<n>>, n the value in thousandths (digits past the third
\* decimal are cut; the bounded inputs have none, nor an exponent).

\* the digits after the point as thousandths
Thousandths(fracDigits) ==
    DecimalValue(fracDigits \o [i \in 1..(3 - Len(fracDigits)) |-> "0"])

\* the number of a string t with n integer digits from index p on and m
\* digits after a point
FloatValue(t, p, n, m) ==
    LET magnitude == DecimalValue(SubSeq(t, p, p + n - 1)) * 1000
                     + Thousandths(SubSeq(t, p + n + 1, p + n + (IF m > 3 THEN 3 ELSE m)))
    IN  IF n + m = 0 THEN NaN
        ELSE IF p = 2 /\ t[1] = "-" THEN <<0 - magnitude>>
        ELSE <<magnitude>>

\* the digits of t from index p on (after the sign), then the fraction
FloatDigits(t, p, n) ==
    FloatValue(t, p, n, IF CharAt(t, p + n) = "." THEN DigitRun(t, p + n + 1) ELSE 0)

FloatSigned(t, p) == FloatDigits(t, p, DigitRun(t, p))

FloatTrimmed(t) == FloatSigned(t, IF t # <<>> /\ t[1] \in {"+", "-"} THEN 2 ELSE 1)

\* parseFloat(s): white space, an optional sign, then digits with an optional
\* fraction, or a fraction alone; anything after is ignored.
parseFloat(s) == FloatTrimmed(TrimStart(s))

\* /[\d]+/.test(s)
HasDigit(s) == \E i \in 1..Len(s) : IsDigit(s[i])

\* /[\/.-]/.test(s)
HasDateSeparators(s) == \E i \in 1..Len(s) : s[i] \in DateSeparators

\* the number of leading records identifyColumns scans for a sample value
SampleRows == 10

Min(a, b) == IF a < b THEN a ELSE b
Max(a, b) == IF a > b THEN a ELSE b

\* a loop that looks for a sample value in every record of the table
RECURSIVE SampleValueFromAllRows(_, _, _)
SampleValueFromAllRows(table, key, i) ==
    IF i > Len(table) THEN <<>>
    ELSE IF Truthy(Get(table[i], key)) THEN String(Get(table[i], key))
    ELSE SampleValueFromAllRows(table, key, i + 1)

\* the for loop looking for a non-empty value of the column, from record i on
RECURSIVE SampleValueFrom(_, _, _)
SampleValueFrom(table, key, i) ==
    IF i > Min(Len(table), SampleRows) THEN <<>>
    ELSE IF Truthy(Get(table[i], key)) THEN String(Get(table[i], key))
    ELSE SampleValueFrom(table, key, i + 1)

\* the isDate of a column, from its name and its sample value
InferIsDate(key, sampleValue) ==
    LET lowerKey == ToLowerCase(key)
        isDateKey == \/ Includes(lowerKey, StrDate)
                     \/ Includes(lowerKey, StrTimestamp)
                     \/ Includes(lowerKey, StrTime)
    IN  IF isDateKey THEN TRUE
        ELSE IF sampleValue # <<>>
        THEN /\ ~isNaN(parseDate(sampleValue))
             /\ Len(sampleValue) > 5
             /\ HasDateSeparators(sampleValue)
        ELSE FALSE

\* key.charAt(0).toUpperCase() + key.slice(1)
LabelOf(key) == IF key = <<>> THEN <<>> ELSE <<UpperChar(key[1])>> \o Tail(key)

\* the column definition of a key whose sample value is sampleValue
ColumnDef(key, sampleValue, isDate) ==
    [key |-> key,
     label |-> LabelOf(key),
     isDate |-> isDate,
     isNumeric |-> /\ ~isDate
                   /\ ~isNaN(parseFloat(StripCommas(sampleValue)))
                   /\ HasDigit(sampleValue)]

ColumnOfSample(key, sampleValue) == ColumnDef(key, sampleValue, InferIsDate(key, sampleValue))

\* the callback of keys.map in identifyColumns
ColumnOf(table, key) == ColumnOfSample(key, SampleValueFrom(table, key, 1))

identifyColumns(table) ==
    IF Len(table) = 0 THEN <<>>
    ELSE LET keys == ObjectKeys(table[1])
         IN  [k \in 1..Len(keys) |-> ColumnOf(table, keys[k])]

----------------------------------------------------------------------------
(* App: REPORTS and the fetchData effect *)

REPORTS == <<"worklog", "material", "enquiry", "tealog">>
ReportIds == {REPORTS[i] : i \in 1..Len(REPORTS)}

\* cols.filter((_, index) => index # ...), indices 0-based as in the source
WithoutIndices(cols, removed) ==
    LET kept == {i \in 1..Len(cols) : (i - 1) \notin removed}
        Nth(n) == CHOOSE i \in kept : Cardinality({j \in kept : j < i}) = n - 1
    IN  [n \in 1..Cardinality(kept) |-> cols[Nth(n)]]

\* "Custom Logic for specific Reports": the columns fetchData keeps
ReportColumns(reportId, cols) ==
    IF reportId = "worklog"
    THEN (IF Len(cols) > 3 THEN WithoutIndices(cols, {2, 3})
          ELSE IF Len(cols) > 2 THEN WithoutIndices(cols, {2})
          ELSE cols)
    ELSE IF reportId = "material"
    THEN (IF Len(cols) > 2 THEN WithoutIndices(cols, {2}) ELSE cols)
    ELSE cols

\* App.filteredData
filteredData(table, filterState) ==
    SelectSeq(table, LAMBDA item :
        \A k \in 1..Len(filterState) :
            \/ filterState[k][2] = <<>>
            \/ String(Get(item, filterState[k][1])) = filterState[k][2])

----------------------------------------------------------------------------
(* FilterBar.filterableColumns *)

StrMaterial == <<"M","a","t","e","r","i","a","l">>
StrMaterials == <<"M","a","t","e","r","i","a","l","s">>
StrWorkDescription == <<"W","o","r","k"," ","D","e","s","c","r","i","p","t","i","o","n">>
StrMA == <<"M","A">>
StrBiscuit == <<"B","i","s","c","u","i","t">>
StrBiscuits == <<"B","i","s","c","u","i","t","s">>
StrAmount == <<"a","m","o","u","n","t">>

startPriorities(reportId) ==
    IF reportId = "material" THEN <<StrMaterial, StrMaterials>> ELSE <<>>
\* a selector without forced-end columns
endPrioritiesNone(reportId) ==
    <<>>
endPriorities(reportId) ==
    IF reportId = "worklog" THEN <<StrWorkDescription>> ELSE <<>>
blacklist(reportId) ==
    IF reportId = "worklog" THEN <<StrMA>>
    ELSE IF reportId = "tealog" THEN <<StrBiscuit, StrBiscuits>>
    ELSE <<>>

matchKey(col, keys) ==
    \E i \in 1..Len(keys) :
        \/ Trim(ToLowerCase(col.key)) = ToLowerCase(keys[i])
        \/ Trim(ToLowerCase(col.label)) = ToLowerCase(keys[i])

\* new Set(data.map(row => String(row[col.key])))
UniqueValues(table, key) == {String(Get(table[i], key)) : i \in 1..Len(table)}

\* the slots of the filter bar
MaxFilterSlots == 4
\* a column with this many distinct values or more is not offered as a filter
MaxUniqueValues == 20

\* availableSlots
AvailableSlots(startCols, endCols) ==
    Max(0, MaxFilterSlots - Len(startCols) - Len(endCols))

filterableColumns(cols, table, reportId) ==
    LET startKeys == startPriorities(reportId)
        endKeys == endPriorities(reportId)
        blockedKeys == blacklist(reportId)
        startCols == SelectSeq(cols, LAMBDA col : matchKey(col, startKeys))
        endCols == SelectSeq(cols, LAMBDA col : matchKey(col, endKeys))
        autoCols == SelectSeq(cols, LAMBDA col :
            /\ ~\E i \in 1..Len(startCols) : startCols[i].key = col.key
            /\ ~\E i \in 1..Len(endCols) : endCols[i].key = col.key
            /\ ~matchKey(col, blockedKeys)
            /\ ~(col.isNumeric /\ Includes(ToLowerCase(col.label), StrAmount))
            /\ Cardinality(UniqueValues(table, col.key)) > 0
            /\ Cardinality(UniqueValues(table, col.key)) < MaxUniqueValues)
        availableSlots == AvailableSlots(startCols, endCols)
        selectedAutoCols == SubSeq(autoCols, 1, Min(availableSlots, Len(autoCols)))
    IN  startCols \o selectedAutoCols \o endCols

\* FilterBar.getUniqueValues(key), without the order of the options
getUniqueValues(table, key) == UniqueValues(table, key)

----------------------------------------------------------------------------
(* DataTable: handleSort and processedData *)

\* the characters from code 32 (space) to code 126, in code order (the grave
\* accent, code 96, is not used by the model)
ASCII ==
    <<" ", "!", "\"", "#", "$", "%", "&", "'", "(", ")", "*", "+", ",", "-", ".", "/",
      "0", "1", "2", "3", "4", "5", "6", "7", "8", "9", ":", ";", "<", "=", ">", "?",
      "@", "A", "B", "C", "D", "E", "F", "G", "H", "I", "J", "K", "L", "M", "N", "O",
      "P", "Q", "R", "S", "T", "U", "V", "W", "X", "Y", "Z", "[", "\\", "]", "^", "_",
      "<grave>", "a", "b", "c", "d", "e", "f", "g", "h", "i", "j", "k", "l", "m", "n", "o",
      "p", "q", "r", "s", "t", "u", "v", "w", "x", "y", "z", "{", "|", "}", "~">>

\* the UTF-16 code unit of a character
CharCode(c) ==
    IF c = "\t" THEN 9 ELSE IF c = LF THEN 10 ELSE IF c = CR THEN 13
    ELSE 31 + (CHOOSE i \in 1..Len(ASCII) : ASCII[i] = c)

\* valA < valB for two strings
RECURSIVE StringLess(_, _)
StringLess(a, b) ==
    IF b = <<>> THEN FALSE
    ELSE IF a = <<>> THEN TRUE
    ELSE IF Head(a) = Head(b) THEN StringLess(Tail(a), Tail(b))
    ELSE CharCode(Head(a)) < CharCode(Head(b))

\* valA < valB for two values read from a LogEntry: a comparison with
\* undefined is false
Less(valA, valB) == valA # Undefined /\ valB # Undefined /\ StringLess(valA, valB)

\* String(val).replace(/[^0-9.-]+/g, "")
NumericChars(s) == SelectSeq(s, LAMBDA c : IsDigit(c) \/ c \in {".", "-"})

Sign(n) == IF n < 0 THEN -1 ELSE IF n > 0 THEN 1 ELSE 0

\* columns.find(c => c.key === sortConfig.key), Null when there is none
FindColumn(cols, key) ==
    IF \E i \in 1..Len(cols) : cols[i].key = key
    THEN cols[CHOOSE i \in 1..Len(cols) :
                  cols[i].key = key /\ \A j \in 1..(i - 1) : cols[j].key # key]
    ELSE Null

\* a comparator that turns the place of an unparseable date with the direction
CompareInvalidDatesByDirection(validA, validB, direction) ==
    IF validA /\ ~validB THEN (IF direction = "asc" THEN -1 ELSE 1)
    ELSE IF ~validA /\ validB THEN (IF direction = "asc" THEN 1 ELSE -1)
    ELSE 0

\* the comparator of filtered.sort for two date values of which one or none parses
CompareInvalidDates(validA, validB, direction) ==
    IF validA /\ ~validB THEN -1
    ELSE IF ~validA /\ validB THEN 1
    ELSE 0

\* what the comparator returns for "no decision here, go on"
FallThrough == 2

\* the block under "if (colDef?.isDate)", as the sign of what it returns
CompareDates(dateA, dateB, direction) ==
    IF ~isNaN(dateA) /\ ~isNaN(dateB)
    THEN (IF direction = "asc" THEN TimeDiffSign(dateA, dateB) ELSE TimeDiffSign(dateB, dateA))
    ELSE IF isNaN(dateA) /\ isNaN(dateB) THEN FallThrough
    ELSE CompareInvalidDates(~isNaN(dateA), ~isNaN(dateB), direction)

\* the numeric comparison, taken when both values parse as numbers
CompareNumbers(numA, numB, direction) ==
    IF isNaN(numA) \/ isNaN(numB) THEN FallThrough
    ELSE IF direction = "asc" THEN Sign(numA[1] - numB[1]) ELSE Sign(numB[1] - numA[1])

\* the final comparison of the two values as they are
CompareValues(valA, valB, direction) ==
    IF Less(valA, valB) THEN (IF direction = "asc" THEN -1 ELSE 1)
    ELSE IF Less(valB, valA) THEN (IF direction = "asc" THEN 1 ELSE -1)
    ELSE 0

\* the result of a block that returned, or else of the code after it
OrElse(result, rest) == IF result # FallThrough THEN result ELSE rest

\* the comparator after the date block
CompareUndated(valA, valB, colDef, direction) ==
    OrElse(IF colDef # Null /\ colDef.isNumeric
           THEN CompareNumbers(parseFloat(NumericChars(String(valA))),
                               parseFloat(NumericChars(String(valB))), direction)
           ELSE FallThrough,
           CompareValues(valA, valB, direction))

\* the comparator, for the two values and the column definition it has read
CompareBy(valA, valB, colDef, direction) ==
    OrElse(IF colDef # Null /\ colDef.isDate
           THEN CompareDates(parseDate(String(valA)), parseDate(String(valB)), direction)
           ELSE FallThrough,
           CompareUndated(valA, valB, colDef, direction))

\* the comparator passed to filtered.sort, as the sign of its result
SortCompare(a, b, config, cols) ==
    CompareBy(Get(a, config.key), Get(b, config.key), FindColumn(cols, config.key),
              config.direction)

\* whether the element at index j comes before the one at index i, c being
\* what the comparator returns for them
Precedes(c, j, i) == c < 0 \/ (c = 0 /\ j < i)

\* filtered.sort(comparator).  Array.prototype.sort is stable: the element at
\* index i of the array comes after the elements the comparator puts before
\* it and after the earlier elements it compares equal to.  (For a comparator
\* that is no ordering the result depends on the engine; the comparator is an
\* ordering on the tables of the model.)
\* place is the tuple of the places of the elements in the sorted array.
Sort(items, config, cols) ==
    LET place == <<>> \o [i \in 1..Len(items) |->
            1 + Cardinality({j \in 1..Len(items) :
                    j # i /\ Precedes(SortCompare(items[j], items[i], config, cols), j, i)})]
    IN  [k \in 1..Len(items) |-> items[CHOOSE i \in 1..Len(items) : place[i] = k]]

\* Object.values(item).some(val => String(val).toLowerCase().includes(term.toLowerCase()))
MatchesSearch(item, term) ==
    \E k \in 1..Len(item) : Includes(ToLowerCase(String(item[k][2])), ToLowerCase(term))

\* DataTable.processedData, for the rows App hands to DataTable
processedData(rows, term, config, cols) ==
    LET filtered == SelectSeq(rows, LAMBDA item : MatchesSearch(item, term))
    IN  IF config # Null THEN Sort(filtered, config, cols) ELSE filtered

\* the sortConfig handleSort(key) sets
handleSort(key, config) ==
    [key |-> key,
     direction |-> IF config # Null /\ config.key = key /\ config.direction = "asc"
                   THEN "desc" ELSE "asc"]
----------------------------------------------------------------------------
(* DataTable: the search box, the page size and the page *)

\* the search term of DataTable before anything is typed
InitialSearchTerm == <<>>

\* the options of the "Show ... entries" select
EntriesPerPageOptions == {10, 25, 50, 100}

\* DataTable as it is mounted
TableMounted ==
    /\ searchTerm = InitialSearchTerm
    /\ entriesPerPage = 10
    /\ currentPage = 1

\* the effect over [data.length, entriesPerPage, searchTerm] after a render in
\* which only data.length may have changed, data being the rows App hands to
\* DataTable: setCurrentPage(1) when it has changed
PageAfterRows(rowsBefore, rowsAfter, page) ==
    IF Len(rowsBefore) # Len(rowsAfter) THEN 1 ELSE page

----------------------------------------------------------------------------
(* Values the variables hold while another specification is being run *)

AppIdle ==
    /\ TableMounted
    /\ activeTab = REPORTS[1]
    /\ loading = TRUE
    /\ filters = <<>>
    /\ sortConfig = Null
    /\ inflight = <<>>
    /\ settled = Null

FunctionIdle ==
    /\ pc = "app"
    /\ input = Null
    /\ output = Null

----------------------------------------------------------------------------
(* Specification Spec: the session of App, with its fetches in flight *)

\* the fetches that may be in flight at once
MaxInflight == 2

\* the sheet each report's url serves
Sheet_worklog ==
    <<"D", "a", "t", "e", COMMA, "S", "i", "t", "e", COMMA, "H", "r", "s", LF, "0",
      "1", "/", "0", "2", "/", "2", "0", "2", "4", COMMA, "A", COMMA, "5", LF, "b",
      "a", "d", COMMA, "B", COMMA, "7">>
Sheet_material ==
    <<"M", "a", "t", "e", "r", "i", "a", "l", COMMA, "S", "i", "t", "e", LF, "s", "a",
      "n", "d", COMMA, "A">>
Sheet_enquiry ==
    <<"S", "i", "t", "e", LF, "A">>
Sheet_tealog ==
    <<"D", "a", "t", "e", LF, "b", "a", "d">>

SheetOf(reportId) ==
    IF reportId = "worklog" THEN Sheet_worklog
    ELSE IF reportId = "material" THEN Sheet_material
    ELSE IF reportId = "enquiry" THEN Sheet_enquiry
    ELSE Sheet_tealog

\* the responses a fetch of a report's url may get
Responses(reportId) == {NetworkError, HttpError, HttpOk(SheetOf(reportId))}

RemoveAt(seq, i) == SubSeq(seq, 1, i - 1) \o SubSeq(seq, i + 1, Len(seq))

\* App after its first render and the first run of the effect
Init ==
    /\ activeTab = REPORTS[1]
    /\ data = <<>>
    /\ loading = TRUE
    /\ columns = <<>>
    /\ filters = <<>>
    /\ sortConfig = Null
    /\ TableMounted
    /\ inflight = <<REPORTS[1]>>
    /\ settled = Null
    /\ FunctionIdle

\* a tab change whose effect forgets setFilters({})
TabChangeKeepingFilters(id) ==
    /\ settled = Null
    /\ id # activeTab
    /\ Len(inflight) < MaxInflight
    /\ activeTab' = id
    /\ loading' = TRUE
    /\ data' = <<>>
    /\ inflight' = Append(inflight, id)
    /\ currentPage' = PageAfterRows(filteredData(data, filters), <<>>, currentPage)
    /\ UNCHANGED <<columns, filters, sortConfig, searchTerm, entriesPerPage, settled,
                   pc, input, output>>

\* Header: onTabChange(id), then the effect of App for the new activeReport up
\* to its await
TabChange(id) ==
    /\ settled = Null
    /\ id # activeTab
    /\ Len(inflight) < MaxInflight
    /\ activeTab' = id
    /\ loading' = TRUE
    /\ data' = <<>>
    /\ filters' = <<>>
    /\ inflight' = Append(inflight, id)
    /\ currentPage' = PageAfterRows(filteredData(data, filters), <<>>, currentPage)
    /\ UNCHANGED <<columns, sortConfig, searchTerm, entriesPerPage, settled,
                   pc, input, output>>

\* the network answers the i-th pending fetch
FetchSettles(i, response) ==
    /\ settled = Null
    /\ i \in 1..Len(inflight)
    /\ settled' = [reportId |-> inflight[i], response |-> response]
    /\ inflight' = RemoveAt(inflight, i)
    /\ UNCHANGED <<activeTab, data, loading, columns, filters, sortConfig, tableVars,
                   pc, input, output>>

\* a fetchData that drops the result of a fetch made for another report than
\* the active one (a request-generation guard)
FetchDataResumesIfCurrent ==
    /\ settled # Null
    /\ LET fetched == parseCSV(settled.response)
       IN  IF fetched.thrown \/ settled.reportId # activeTab
           THEN UNCHANGED <<data, columns>>
           ELSE /\ data' = fetched.value
                /\ columns' = ReportColumns(settled.reportId, identifyColumns(fetched.value))
    /\ loading' = (IF settled.reportId # activeTab THEN loading ELSE FALSE)
    /\ settled' = Null
    /\ currentPage' = PageAfterRows(filteredData(data, filters),
                                    filteredData(data', filters), currentPage)
    /\ UNCHANGED <<activeTab, filters, sortConfig, searchTerm, entriesPerPage, inflight,
                   pc, input, output>>

\* fetchData resumes after "await parseCSV(activeReport.url)"; activeReport is
\* the report the effect ran for
FetchDataResumes ==
    /\ settled # Null
    /\ LET fetched == parseCSV(settled.response)
       IN  IF fetched.thrown
           THEN UNCHANGED <<data, columns>>
           ELSE /\ data' = fetched.value
                /\ columns' = ReportColumns(settled.reportId, identifyColumns(fetched.value))
    /\ loading' = FALSE
    /\ settled' = Null
    /\ currentPage' = PageAfterRows(filteredData(data, filters),
                                    filteredData(data', filters), currentPage)
    /\ UNCHANGED <<activeTab, filters, sortConfig, searchTerm, entriesPerPage, inflight,
                   pc, input, output>>

\* FilterBar: onChange of the select of a filter column
FilterChange(col, value) ==
    /\ settled = Null
    /\ ~loading
    /\ filters' = SetProperty(filters, col.key, value)
    /\ currentPage' = PageAfterRows(filteredData(data, filters),
                                    filteredData(data, filters'), currentPage)
    /\ UNCHANGED <<activeTab, data, loading, columns, sortConfig, searchTerm,
                   entriesPerPage, inflight, settled,
                   pc, input, output>>

\* DataTable: a click on the header of a column
HeaderClick(key) ==
    /\ settled = Null
    /\ ~loading
    /\ filteredData(data, filters) # <<>>
    /\ sortConfig' = handleSort(key, sortConfig)
    /\ UNCHANGED <<activeTab, data, loading, columns, filters, tableVars, inflight, settled,
                   pc, input, output>>

Range(seq) == {seq[i] : i \in 1..Len(seq)}

Next ==
    \/ \E id \in ReportIds : TabChange(id)
    \/ \E i \in 1..Len(inflight) : \E response \in Responses(inflight[i]) :
           FetchSettles(i, response)
    \/ FetchDataResumes
    \/ \E col \in Range(filterableColumns(columns, data, activeTab)) :
           \E value \in getUniqueValues(data, col.key) \cup {<<>>} : FilterChange(col, value)
    \/ \E col \in Range(columns) : HeaderClick(col.key)

Spec == Init /\ [][Next]_vars

----------------------------------------------------------------------------
(* Specification SpecPage: the session of App on its first report, over a
   sheet of several pages, with the search box, the page size select and the page buttons of
   DataTable *)

\* the rows of each site in the sheet of several pages
SiteRows == 11

\* the rows of the second site that hold the first item
SharedRows == 3

RECURSIVE Lines(_, _)
\* n lines of a sheet, each after a line feed
Lines(line, n) == IF n = 0 THEN <<>> ELSE <<LF>> \o line \o Lines(line, n - 1)

\* a sheet of two sites with as many rows each; every row of site A holds
\* item x, a few rows of site B hold it and the others hold item y
Sheet_pages ==
    <<"S", "i", "t", "e", COMMA, "I", "t", "e", "m">>
        \o Lines(<<"A", COMMA, "x">>, SiteRows)
        \o Lines(<<"B", COMMA, "x">>, SharedRows)
        \o Lines(<<"B", COMMA, "y">>, SiteRows - SharedRows)

PageSheetOf(reportId) ==
    IF reportId = "worklog" THEN Sheet_pages ELSE SheetOf(reportId)

\* the responses a fetch of a report's url may get
PageResponses(reportId) == {NetworkError, HttpOk(PageSheetOf(reportId))}

\* what is typed into the search box
SearchTerms == {<<>>, <<"x">>, <<"b">>}

\* Math.ceil(processedData.length / entriesPerPage)
totalPages(processed, size) == (Len(processed) + size - 1) \div size

\* processedData.slice(indexOfFirstEntry, indexOfLastEntry)
currentEntries(processed, page, size) ==
    LET indexOfLastEntry == page * size
        indexOfFirstEntry == indexOfLastEntry - size
    IN  SubSeq(processed, indexOfFirstEntry + 1, Min(indexOfLastEntry, Len(processed)))

\* the rows DataTable shows, sorts and pages in the current state
Processed == processedData(filteredData(data, filters), searchTerm, sortConfig, columns)

\* whether DataTable renders its controls: not while loading, and not when
\* App hands it no row
TableShown ==
    /\ settled = Null
    /\ ~loading
    /\ filteredData(data, filters) # <<>>

\* the search box: onChange, then the effect over
\* [data.length, entriesPerPage, searchTerm]
SearchChange(term) ==
    /\ pc = "app"
    /\ TableShown
    /\ term # searchTerm
    /\ searchTerm' = term
    /\ currentPage' = 1
    /\ UNCHANGED <<activeTab, data, loading, columns, filters, sortConfig, entriesPerPage,
                   inflight, settled, pc, input, output>>

\* the "Show ... entries" select: onChange, then the same effect
EntriesPerPageChange(size) ==
    /\ pc = "app"
    /\ TableShown
    /\ size # entriesPerPage
    /\ entriesPerPage' = size
    /\ currentPage' = 1
    /\ UNCHANGED <<activeTab, data, loading, columns, filters, sortConfig, searchTerm,
                   inflight, settled, pc, input, output>>

\* the Previous button: setCurrentPage(p => Math.max(1, p - 1))
PreviousClick ==
    /\ pc = "app"
    /\ TableShown
    /\ currentPage # 1
    /\ currentPage' = Max(1, currentPage - 1)
    /\ UNCHANGED <<activeTab, data, loading, columns, filters, sortConfig, searchTerm,
                   entriesPerPage, inflight, settled, pc, input, output>>

\* the Next button, pages being totalPages:
\* setCurrentPage(p => Math.min(totalPages, p + 1))
NextClick(pages) ==
    /\ pc = "app"
    /\ TableShown
    /\ ~(currentPage = pages \/ pages = 0)
    /\ currentPage' = Min(pages, currentPage + 1)
    /\ UNCHANGED <<activeTab, data, loading, columns, filters, sortConfig, searchTerm,
                   entriesPerPage, inflight, settled, pc, input, output>>

\* the numbers of the page buttons DataTable renders
PageButtons(pages, page) ==
    {pageNum \in {IF pages > 5 /\ page > 3 THEN page - 2 + i ELSE i + 1 :
                      i \in 0..(Min(5, pages) - 1)} : pageNum <= pages}

\* a numbered page button: setCurrentPage(pageNum)
PageClick(pageNum) ==
    /\ pc = "app"
    /\ TableShown
    /\ currentPage' = pageNum
    /\ UNCHANGED <<activeTab, data, loading, columns, filters, sortConfig, searchTerm,
                   entriesPerPage, inflight, settled, pc, input, output>>

\* columns.map(col => col.label)
tableColumn(cols) == [c \in 1..Len(cols) |-> cols[c].label]

\* rows.map(row => columns.map(col => row[col.key]))
tableRows(cols, rows) ==
    [r \in 1..Len(rows) |-> [c \in 1..Len(cols) |-> Get(rows[r], cols[c].key)]]

\* a handleDownload that hands the rows of the visible page to downloadPDF
HandleDownloadVisiblePage(processed) ==
    /\ pc = "app"
    /\ TableShown
    /\ output' = [head |-> <<tableColumn(columns)>>,
                  body |-> tableRows(columns,
                                     currentEntries(processed, currentPage, entriesPerPage))]
    /\ pc' = "export"
    /\ UNCHANGED <<appVars, input>>

\* the Download button: handleDownload, and downloadPDF(title, columns,
\* processedData) up to its call of doc.autoTable, output being what it hands
\* to autoTable
HandleDownload(processed) ==
    /\ pc = "app"
    /\ TableShown
    /\ output' = [head |-> <<tableColumn(columns)>>, body |-> tableRows(columns, processed)]
    /\ pc' = "export"
    /\ UNCHANGED <<appVars, input>>

\* downloadPDF from doc.autoTable to its return
ExportSaved ==
    /\ pc = "export"
    /\ output' = Null
    /\ pc' = "app"
    /\ UNCHANGED <<appVars, input>>

\* the events of the session on its first report; a handler runs to its end
\* before the next event is handled
\* the events of the session on its first report; a handler runs to its end
\* before the next event is handled
NextPage ==
    \/ \E i \in 1..Len(inflight) : \E response \in PageResponses(inflight[i]) :
           FetchSettles(i, response)
    \/ FetchDataResumes
    \/ /\ pc = "app"
       /\ \E col \in Range(filterableColumns(columns, data, activeTab)) :
              \E value \in getUniqueValues(data, col.key) \cup {<<>>} : FilterChange(col, value)
    \/ /\ pc = "app"
       /\ \E col \in Range(columns) : HeaderClick(col.key)
    \/ \E term \in SearchTerms : SearchChange(term)
    \/ \E size \in EntriesPerPageOptions : EntriesPerPageChange(size)
    \/ PreviousClick
    \/ NextClick(totalPages(Processed, entriesPerPage))
    \/ \E pageNum \in PageButtons(totalPages(Processed, entriesPerPage), currentPage) :
           PageClick(pageNum)
    \/ HandleDownload(Processed)
    \/ ExportSaved

SpecPage == Init /\ [][NextPage]_vars
----------------------------------------------------------------------------
(* Specification SpecTok: one call of splitCSVLine on a bounded line *)

TokAlphabet == {"a", COMMA, QUOTE}

\* the lines of section 8 of the spec: a,"b,c",d   a,"b""c",d   a,b,
LineQuotedComma == <<"a", COMMA, QUOTE, "b", COMMA, "c", QUOTE, COMMA, "d">>
LineDoubledQuote == <<"a", COMMA, QUOTE, "b", QUOTE, QUOTE, "c", QUOTE, COMMA, "d">>
LineTrailingComma == <<"a", COMMA, "b", COMMA>>
\* fields with surrounding white space:  a , b
LinePadded == <<" ", "a", " ", COMMA, " ", "b", " ">>

TokLines == StringsUpTo(TokAlphabet, MaxLineLen)
            \cup {LineQuotedComma, LineDoubledQuote, LineTrailingComma, LinePadded}

InitTok ==
    /\ AppIdle
    /\ data = <<>>
    /\ columns = <<>>
    /\ pc = "call"
    /\ input \in TokLines
    /\ output = Null

SplitCSVLineCall ==
    /\ pc = "call"
    /\ output' = splitCSVLine(input)
    /\ pc' = "return"
    /\ UNCHANGED <<input, appVars>>

NextTok == SplitCSVLineCall

SpecTok == InitTok /\ [][NextTok]_vars


----------------------------------------------------------------------------
(* Specification SpecCSV: parseCSV on a bounded sheet, then identifyColumns *)

MaxHeaderFields == 3
MaxDataLines == 2

\* names a header field may have: letters, array indices, __proto__
HeaderNames == {<<"a">>, <<"b">>, <<"2">>, <<"1", "0">>, ProtoKey}

\* lines that may follow the header: blank, one, two or three fields, a quoted comma
DataLines == {<<" ">>, <<"x">>, <<"p", COMMA, "q">>, <<QUOTE, "r", COMMA, "s", QUOTE, COMMA, "t">>, <<"u", COMMA, "v", COMMA, "w">>}

RECURSIVE Join(_, _)
Join(parts, sep) ==
    IF parts = <<>> THEN <<>>
    ELSE IF Len(parts) = 1 THEN parts[1]
    ELSE parts[1] \o sep \o Join(Tail(parts), sep)

RECURSIVE SeqsUpTo(_, _)
SeqsUpTo(S, n) ==
    IF n = 0 THEN {<<>>}
    ELSE LET shorter == SeqsUpTo(S, n - 1)
         IN  shorter \cup {Append(s, x) : s \in {t \in shorter : Len(t) = n - 1}, x \in S}

\* the sheet a header, data lines and a line terminator make
SheetText(sheet) == Join(<<Join(sheet.header, <<COMMA>>)>> \o sheet.lines, sheet.eol)

Sheets ==
    [header : SeqsUpTo(HeaderNames, MaxHeaderFields) \ {<<>>},
     lines : SeqsUpTo(DataLines, MaxDataLines),
     eol : {<<LF>>, <<CR, LF>>}]

InitCSV ==
    /\ AppIdle
    /\ data = <<>>
    /\ columns = <<>>
    /\ pc = "fetch"
    /\ input \in Sheets
    /\ output = Null

\* parseCSV(url) where the url serves the sheet
ParseCSVCall ==
    /\ pc = "fetch"
    /\ data' = parseCSV(HttpOk(SheetText(input))).value
    /\ pc' = "parsed"
    /\ UNCHANGED <<activeTab, loading, columns, filters, sortConfig, tableVars, inflight,
                   settled, input, output>>

\* identifyColumns(fetchedData)
IdentifyColumnsCall ==
    /\ pc = "parsed"
    /\ columns' = identifyColumns(data)
    /\ pc' = "done"
    /\ UNCHANGED <<activeTab, data, loading, filters, sortConfig, tableVars, inflight,
                   settled, input, output>>

NextCSV == ParseCSVCall \/ IdentifyColumnsCall

SpecCSV == InitCSV /\ [][NextCSV]_vars

----------------------------------------------------------------------------
(* Specification SpecInfer: identifyColumns on a table of one column *)

\* the records of the table; more than SampleRows, so that records are left unscanned
MaxRows == 11

InferKeys == {<<"D", "a", "t", "e">>, <<"n">>, <<"U", "p", "t", "i", "m", "e">>, <<"T", "I", "M", "E", "S", "T", "A", "M", "P">>}
InferValues == {<<>>, <<"5">>}

\* the table of one column with these values
OneColumnTable(key, values) == [i \in 1..Len(values) |-> <<<<key, values[i]>>>>]

InitInfer ==
    /\ AppIdle
    /\ input \in [key : InferKeys, values : SeqsUpTo(InferValues, MaxRows)]
    /\ data = OneColumnTable(input.key, input.values)
    /\ columns = <<>>
    /\ pc = "parsed"
    /\ output = Null

NextInfer == IdentifyColumnsCall

SpecInfer == InitInfer /\ [][NextInfer]_vars

----------------------------------------------------------------------------
(* Specification SpecSel: FilterBar.filterableColumns for the table and the
   columns a report's fetch leaves in App *)

\* the columns of the fetched sheet
MaxSelColumns == 6

\* the column names a sheet may have, in sheet order
SelNames ==
    <<<<"W", "o", "r", "k", " ", "D", "e", "s", "c", "r", "i", "p", "t", "i", "o", "n">>,
      <<"M", "a", "t", "e", "r", "i", "a", "l">>,
      <<"m", "a", "t", "e", "r", "i", "a", "l">>,
      <<"S", "i", "t", "e">>,
      <<"M", "A", "T", "E", "R", "I", "A", "L">>,
      <<"M", "a", "t", "e", "r", "i", "a", "l", "s">>,
      <<"m", "a", "t", "e", "r", "i", "a", "l", "s">>,
      <<"M", "A">>,
      <<"A", "m", "o", "u", "n", "t">>>>

\* n as a decimal numeral
RECURSIVE Numeral(_)
Numeral(n) == IF n < 10 THEN <<Digits[n + 1]>> ELSE Numeral(n \div 10) \o <<Digits[(n % 10) + 1]>>

StrSite == <<"S", "i", "t", "e">>

\* the value of row r under a column: Site differs from row to row, Amount is
\* a number, every other column holds one value
SelValue(name, r) ==
    IF name = StrSite THEN <<"s">> \o Numeral(r)
    ELSE IF ToLowerCase(name) = StrAmount THEN <<"5">>
    ELSE <<"v">>

\* the table with the chosen names as columns and n rows
SelTable(chosen, n) ==
    LET picked == SelectSeq([i \in 1..Len(SelNames) |-> i], LAMBDA i : i \in chosen)
    IN  [r \in 1..n |-> [k \in 1..Len(picked) |->
                             <<SelNames[picked[k]], SelValue(SelNames[picked[k]], r)>>]]

InitSel ==
    /\ activeTab \in ReportIds
    /\ loading = FALSE
    /\ filters = <<>>
    /\ sortConfig = Null
    /\ TableMounted
    /\ inflight = <<>>
    /\ settled = Null
    /\ input \in [chosen : {c \in SUBSET (1..Len(SelNames)) : Cardinality(c) <= MaxSelColumns},
                   rows : {1, MaxUniqueValues - 1, MaxUniqueValues}]
    /\ data = SelTable(input.chosen, input.rows)
    /\ columns = ReportColumns(activeTab, identifyColumns(data))
    /\ pc = "render"
    /\ output = Null

\* FilterBar renders: the useMemo of filterableColumns
FilterBarRender ==
    /\ pc = "render"
    /\ ~loading
    /\ output' = filterableColumns(columns, data, activeTab)
    /\ pc' = "done"
    /\ UNCHANGED <<appVars, input>>

NextSel == FilterBarRender

SpecSel == InitSel /\ [][NextSel]_vars

----------------------------------------------------------------------------
(* Specification SpecSort: DataTable.processedData for a sort on a column of
   date strings *)

\* the records of the table
MaxSortRows == 3

StrWhen == <<"W", "h", "e", "n">>

\* 1 Feb 2024, 15 Jun 2024, 2 Jan 2024, an ISO date, and two strings that are no date
SortValues == {<<"0", "1", "/", "0", "2", "/", "2", "0", "2", "4">>, <<"1", "5", "/", "0", "6", "/", "2", "0", "2", "4">>, <<"2", "/", "1", "/", "2", "4">>,
               <<"2", "0", "2", "4", "-", "0", "3", "-", "0", "4">>, <<"b", "a", "d">>, <<>>}

InitSort ==
    /\ activeTab = REPORTS[3]
    /\ loading = FALSE
    /\ filters = <<>>
    /\ inflight = <<>>
    /\ settled = Null
    /\ input \in [key : {LabelOf(StrDate), StrWhen},
                   values : SeqsUpTo(SortValues, MaxSortRows)]
    /\ data = OneColumnTable(input.key, input.values)
    /\ columns = ReportColumns(activeTab, identifyColumns(data))
    /\ sortConfig \in [key : {input.key}, direction : {"asc", "desc"}]
    /\ TableMounted
    /\ pc = "render"
    /\ output = Null

\* DataTable renders: the useMemo of processedData over the rows App hands it
DataTableRender ==
    /\ pc = "render"
    /\ output' = processedData(filteredData(data, filters), searchTerm, sortConfig, columns)
    /\ pc' = "done"
    /\ UNCHANGED <<appVars, input>>

NextSort == DataTableRender

SpecSort == InitSort /\ [][NextSort]_vars
----------------------------------------------------------------------------
(* Specification SpecDate: one call of parseDate on a string put together
   from a first number, a separator, a second number, a separator, a third
   number and what follows them *)

DateFirstNumbers == {<<"1">>, <<"0", "3">>, <<"1", "3">>, <<"3", "1">>, <<"3", "2">>, <<"0">>,
                     <<"2", "0", "2", "4">>}
DateSecondNumbers == {<<"2">>, <<"0", "4">>, <<"1", "2">>, <<"1", "3">>, <<"0">>}
DateThirdNumbers == {<<"2", "4">>, <<"2", "0", "2", "4">>, <<"1", "2", "3">>, <<"5">>}
DateFirstSeparators == {"/", "-", ":"}
DateSecondSeparators == {"/", "-", "."}

\* what follows the date: nothing, a time of day, or text that is no time of
\* day; hms is the hours, minutes and seconds of a time of day, <<>> otherwise
DateTails ==
    {[text |-> <<>>, timed |-> TRUE, hms |-> <<0, 0, 0>>],
     [text |-> <<" ", "1", "0", ":", "3", "0">>, timed |-> TRUE, hms |-> <<10, 30, 0>>],
     [text |-> <<" ", " ", "7", ":", "5", ":", "5", "9">>, timed |-> TRUE, hms |-> <<7, 5, 59>>],
     [text |-> <<" ", "2", "5", ":", "6", "1", ":", "6", "1">>, timed |-> TRUE, hms |-> <<25, 61, 61>>],
     [text |-> <<" ", "1", "0", ":", "3", "0", ":">>, timed |-> FALSE, hms |-> <<>>],
     [text |-> <<"T", "1", "0", ":", "3", "0">>, timed |-> FALSE, hms |-> <<>>]}

DatePads == {<<>>, <<" ">>}

\* the string is one the regular expression of parseDate reads: one or two
\* digits, a separator, one or two digits, a separator, two to four digits,
\* then nothing or a time of day
ReadByRegex(in) ==
    /\ Len(in.first) <= 2 /\ in.sep1 \in {"/", ".", "-"}
    /\ Len(in.second) <= 2 /\ in.sep2 \in {"/", ".", "-"}
    /\ Len(in.third) >= 2 /\ Len(in.third) <= 4
    /\ in.tail.timed

\* the "Validate basics" check on the numbers of such a string
InRange(in) ==
    /\ DecimalValue(in.second) >= 1 /\ DecimalValue(in.second) <= 12
    /\ DecimalValue(in.first) >= 1 /\ DecimalValue(in.first) <= 31

\* YYYY-MM-DD and M/D/YYYY, the strings every engine's Date.parse reads alike
ISOShaped(in) ==
    /\ Len(in.first) = 4 /\ in.sep1 = "-" /\ Len(in.second) = 2 /\ in.sep2 = "-"
    /\ Len(in.third) = 2 /\ in.tail.text = <<>>
USShaped(in) ==
    /\ Len(in.first) <= 2 /\ in.sep1 = "/" /\ Len(in.second) <= 2 /\ in.sep2 = "/"
    /\ Len(in.third) = 4 /\ in.tail.text = <<>>

\* The strings of the model: those parseDate reads by its regular expression,
\* and of those it hands to Date.parse the ones engines agree on.
DateInputs ==
    {in \in [first : DateFirstNumbers, sep1 : DateFirstSeparators,
              second : DateSecondNumbers, sep2 : DateSecondSeparators,
              third : DateThirdNumbers, tail : DateTails, pad : DatePads] :
        \/ ReadByRegex(in) /\ InRange(in)
        \/ ISOShaped(in)
        \/ USShaped(in)}

\* the string handed to parseDate
DateText(in) ==
    in.pad \o in.first \o <<in.sep1>> \o in.second \o <<in.sep2>> \o in.third
           \o in.tail.text \o in.pad

InitDate ==
    /\ AppIdle
    /\ data = <<>>
    /\ columns = <<>>
    /\ input \in DateInputs
    /\ pc = "call"
    /\ output = Null

ParseDateCall ==
    /\ pc = "call"
    /\ output' = parseDate(DateText(input))
    /\ pc' = "done"
    /\ UNCHANGED <<appVars, input>>

NextDate == ParseDateCall

SpecDate == InitDate /\ [][NextDate]_vars

----------------------------------------------------------------------------
(* C5 *)

\* The reference quoted-CSV splitter of section 4.1: the characters of a field
\* are kept as written while a quote toggles the quoted span; the field is then
\* trimmed, one layer of enclosing quotes is stripped and every doubled quote
\* is collapsed to one literal quote.
RECURSIVE RefSplitLoop(_, _, _, _, _)
RefSplitLoop(line, i, current, inQuotes, result) ==
    IF i > Len(line) THEN Append(result, Trim(current))
    ELSE LET char == line[i]
         IN  IF char = QUOTE
             THEN RefSplitLoop(line, i + 1, Append(current, char), ~inQuotes, result)
             ELSE IF char = COMMA /\ ~inQuotes
             THEN RefSplitLoop(line, i + 1, <<>>, inQuotes, Append(result, Trim(current)))
             ELSE RefSplitLoop(line, i + 1, Append(current, char), inQuotes, result)

RefSplitCSVLine(line) ==
    LET result == RefSplitLoop(line, 1, <<>>, FALSE, <<>>)
    IN  [k \in 1..Len(result) |-> CollapseQuotes(StripQuotes(result[k]))]

\* a line every quoted-CSV reader agrees on: each field is either free of quotes
\* or enclosed in quotes with every inner quote doubled
RECURSIVE QuotesInPairs(_)
QuotesInPairs(s) ==
    IF s = <<>> THEN TRUE
    ELSE IF Head(s) = QUOTE
         THEN Len(s) >= 2 /\ s[2] = QUOTE /\ QuotesInPairs(SubSeq(s, 3, Len(s)))
         ELSE QuotesInPairs(Tail(s))

WellFormedField(f) ==
    \/ \A i \in 1..Len(f) : f[i] # QUOTE
    \/ /\ Len(f) >= 2
       /\ f[1] = QUOTE
       /\ f[Len(f)] = QUOTE
       /\ QuotesInPairs(SubSeq(f, 2, Len(f) - 1))

WellFormedLine(line) ==
    LET raw == RefSplitLoop(line, 1, <<>>, FALSE, <<>>)
    IN  \A k \in 1..Len(raw) : WellFormedField(raw[k])

\* C5: for every input line the output of the Line Tokenizer equals that of the
\* reference quoted-CSV splitter (a doubled quote inside a quoted field comes
\* out as exactly one literal quote character).  Stated for the well-formed
\* lines, on which the reference is beyond dispute.
C5_TokenizerEqualsReference ==
    (pc = "return" /\ WellFormedLine(input)) => output = RefSplitCSVLine(input)

\* the part of C5 the code does satisfy: a comma inside a quoted span does not
\* separate fields, and a line without doubled quotes is split as the reference does
C5_QuotedCommaKept ==
    (pc = "return" /\ input = LineQuotedComma)
        => output = <<<<"a">>, <<"b", COMMA, "c">>, <<"d">>>>


----------------------------------------------------------------------------
(* C6 *)

\* the first SampleRows records of the table have an empty value for the key
NoSampleValue(table, key) ==
    \A i \in 1..Len(table) : i <= 10 => Get(table[i], key) = <<>>

\* the name of the column contains "date", "timestamp" or "time", in any case
NameSaysDate(key) ==
    \E word \in {StrDate, StrTimestamp, StrTime} : Includes(ToLowerCase(key), word)

\* C6 as stated: when all of the first 10 records have an empty value for a
\* key, the Column Inferencer yields isDate = false and isNumeric = false for
\* that column, whatever the name of the column.
C6_NoSampleNeitherDateNorNumeric ==
    pc = "done" =>
        \A k \in 1..Len(columns) :
            NoSampleValue(data, columns[k].key)
                => ~columns[k].isDate /\ ~columns[k].isNumeric

\* C6 as amended: when all of the first 10 records have an empty value for a
\* key, the column is not numeric, and it is a date column exactly when its
\* name contains "date", "timestamp" or "time".
C6_NoSampleNotNumericDateByName ==
    pc = "done" =>
        \A k \in 1..Len(columns) :
            NoSampleValue(data, columns[k].key)
                => /\ ~columns[k].isNumeric
                   /\ columns[k].isDate = NameSaysDate(columns[k].key)

\* a table whose first 10 records are empty and whose 11th is not has been classified
C6_Witness ==
    /\ pc = "done"
    /\ Len(data) > 10
    /\ Len(columns) = 1
    /\ NoSampleValue(data, columns[1].key)
    /\ Get(data[11], columns[1].key) # <<>>
    /\ ~NameSaysDate(columns[1].key)

----------------------------------------------------------------------------
(* C7 *)

\* the names of the header fields of the sheet, trimmed, in header order
HeaderKeys(sheet) == [k \in 1..Len(sheet.header) |-> Trim(sheet.header[k])]

\* C7: for every Table the Tabular Parser produces from a header line, the
\* Column Inferencer returns exactly one ColumnDefinition per header field,
\* in the order of the fields in the header line (also when names are
\* integer-like or repeat).  Stated for the tables that have a record and a
\* header without a field named __proto__.
C7_OneColumnPerHeaderFieldInOrder ==
    (pc = "done" /\ data # <<>> /\ ProtoKey \notin Range(input.header))
        => [k \in 1..Len(columns) |-> columns[k].key] = HeaderKeys(input)

\* what holds when the header names are distinct and none is an array index
\* or __proto__
C7_HoldsForPlainDistinctNames ==
    (/\ pc = "done"
     /\ data # <<>>
     /\ \A k \in 1..Len(input.header) :
            /\ input.header[k] # ProtoKey
            /\ ~IsArrayIndex(input.header[k])
            /\ \A j \in 1..Len(input.header) :
                   j # k => input.header[j] # input.header[k])
        => [k \in 1..Len(columns) |-> columns[k].key] = HeaderKeys(input)

----------------------------------------------------------------------------
(* C8 *)

\* the lines of the sheet that are not blank, the header first
SheetNonBlankLines(sheet) ==
    SelectSeq(<<Join(sheet.header, <<COMMA>>)>> \o sheet.lines,
              LAMBDA line : \E i \in 1..Len(line) : line[i] \notin WhiteSpace)

\* the data lines a Table is to hold: those with as many fields as the header
ExpectedDataLines(sheet) ==
    LET lines == SheetNonBlankLines(sheet)
    IN  IF Len(lines) < 2 THEN <<>>
        ELSE SelectSeq(Tail(lines),
                       LAMBDA line : Len(splitCSVLine(line)) = Len(sheet.header))

\* record r holds, under each header name, a field of the line standing under that name
RecordOfLine(record, line, sheet) ==
    \A k \in 1..Len(sheet.header) :
        \E j \in 1..Len(sheet.header) :
            /\ sheet.header[j] = sheet.header[k]
            /\ Get(record, Trim(sheet.header[k])) = splitCSVLine(line)[j]

RecordsInLineOrder(sheet) ==
    /\ Len(data) = Len(ExpectedDataLines(sheet))
    /\ \A r \in 1..Len(data) : RecordOfLine(data[r], ExpectedDataLines(sheet)[r], sheet)

SameKeySetAsHeader(sheet) ==
    \A r \in 1..Len(data) : Range(ObjectKeys(data[r])) = Range(HeaderKeys(sheet))

\* C8: the Table holds, in source line order, exactly the non-blank data lines
\* whose field count equals that of the header, every record has the trimmed
\* header names as its key set, and the Table is empty when fewer than 2
\* non-blank lines exist.
C8_TableIsMatchingLinesWithHeaderKeys ==
    pc \in {"parsed", "done"} =>
        /\ RecordsInLineOrder(input)
        /\ SameKeySetAsHeader(input)
        /\ (Len(SheetNonBlankLines(input)) < 2 => data = <<>>)

\* what holds of a header that has no field named __proto__
C8_HoldsWithoutProtoKey ==
    (pc \in {"parsed", "done"} /\ ProtoKey \notin Range(input.header)) =>
        /\ RecordsInLineOrder(input)
        /\ SameKeySetAsHeader(input)
        /\ (Len(SheetNonBlankLines(input)) < 2 => data = <<>>)

----------------------------------------------------------------------------
(* C1 *)

\* C1: for every set of column definitions, every table and every report id
\* the Filter-Column Selector returns at most 4 columns, also when more than 4
\* columns match the forced-start and forced-end names of the report.
C1_AtMostFourFilterColumns ==
    pc = "done" => Len(output) <= 4

\* what holds when the forced columns are at most 4
C1_HoldsForAtMostFourForced ==
    (/\ pc = "done"
     /\ Cardinality({k \in 1..Len(columns) :
            \/ matchKey(columns[k], startPriorities(activeTab))
            \/ matchKey(columns[k], endPriorities(activeTab))}) <= 4)
        => Len(output) <= 4

----------------------------------------------------------------------------
(* C10 *)

ParsesAsDate(record, key) == ~isNaN(parseDate(String(Get(record, key))))

SortedColumnIsDate ==
    /\ sortConfig # Null
    /\ \E k \in 1..Len(columns) : columns[k].key = sortConfig.key /\ columns[k].isDate

\* C10: when sorting by a date column, in ascending and in descending
\* direction every record whose value fails to parse as a date comes after
\* every record whose value parses, and two records that parse are ordered by
\* timestamp according to the direction.
C10_InvalidDatesLastValidByTimestamp ==
    (pc = "done" /\ SortedColumnIsDate) =>
        /\ Len(output) = Len(data)
        /\ \A i \in 1..Len(output) : \A j \in (i + 1)..Len(output) :
              LET validI == ParsesAsDate(output[i], sortConfig.key)
                  validJ == ParsesAsDate(output[j], sortConfig.key)
                  timeI == parseDate(String(Get(output[i], sortConfig.key)))
                  timeJ == parseDate(String(Get(output[j], sortConfig.key)))
              IN  /\ validJ => validI
                  /\ (validI /\ validJ) =>
                        IF sortConfig.direction = "asc"
                        THEN TimeDiffSign(timeI, timeJ) <= 0
                        ELSE TimeDiffSign(timeI, timeJ) >= 0

\* a descending sort of a date column has put an unparseable value after two
\* parseable ones that it preceded in the table
C10_Witness ==
    /\ pc = "done"
    /\ SortedColumnIsDate
    /\ sortConfig.direction = "desc"
    /\ Len(output) = 3
    /\ ~ParsesAsDate(data[1], sortConfig.key)
    /\ ParsesAsDate(data[2], sortConfig.key)
    /\ ParsesAsDate(data[3], sortConfig.key)
    /\ output = <<data[3], data[2], data[1]>>
    /\ data[2] # data[3]

----------------------------------------------------------------------------
(* C2 *)

\* fetchData resumes in this step from a fetch the network answered with a sheet
ResumesWithSheet ==
    /\ settled # Null
    /\ settled' = Null
    /\ settled.response.kind = "resolve"
    /\ settled.response.ok

\* C2: the response of a fetch is applied when it arrives whatever the active
\* report is by then: the Table and the ColumnDefinitions become those parsed
\* from the response and loading becomes false (no request-generation guard).
C2_ResponseAppliedWhateverTheActiveReport ==
    [][ResumesWithSheet =>
          /\ data' = ParseText(settled.response.text)
          /\ columns' = ReportColumns(settled.reportId,
                                      identifyColumns(ParseText(settled.response.text)))
          /\ ~loading']_vars

\* the active report is material, loading is false, and the Table and the
\* ColumnDefinitions are those of the worklog sheet, while the fetch of the
\* material sheet is still in flight
C2_Witness ==
    /\ activeTab = "material"
    /\ ~loading
    /\ settled = Null
    /\ inflight = <<"material">>
    /\ data = ParseText(Sheet_worklog)
    /\ data # <<>>
    /\ data # ParseText(Sheet_material)
    /\ columns = ReportColumns("worklog", identifyColumns(ParseText(Sheet_worklog)))

----------------------------------------------------------------------------
(* C3 *)

\* C3: whenever the active report changes the SortSpec is reset to none.
C3_SortResetOnReportSwitch ==
    [][activeTab' # activeTab => sortConfig' = Null]_vars

\* what the code does: a report switch leaves the SortSpec as it is
C3_SortKeptOnReportSwitch ==
    [][activeTab' # activeTab => sortConfig' = sortConfig]_vars

----------------------------------------------------------------------------
(* C4 *)

\* C4: whenever the active report changes, FilterState is reset to the empty
\* mapping, the table is cleared and loading is set, in the step that issues
\* the fetch for the new report, hence before any response to it is applied.
C4_FiltersResetOnReportSwitch ==
    [][activeTab' # activeTab =>
          /\ filters' = <<>>
          /\ data' = <<>>
          /\ loading'
          /\ inflight' = Append(inflight, activeTab')]_vars

\* the report has been switched after a table was loaded and sorted: the
\* session is loading with no filter and no table
C4_Witness ==
    /\ activeTab # REPORTS[1]
    /\ loading
    /\ filters = <<>>
    /\ data = <<>>
    /\ columns # <<>>
    /\ sortConfig # Null
    /\ inflight = <<activeTab>>

----------------------------------------------------------------------------
(* C9 *)

\* fetchData resumes in this step from a fetch that failed: the request was
\* rejected or the response was not OK
ResumesWithFailure ==
    /\ settled # Null
    /\ settled' = Null
    /\ (settled.response.kind = "reject" \/ ~settled.response.ok)

\* C9: when obtaining the raw text fails, the Tabular Parser returns an empty
\* Table without propagating a fault, and the session is left with loading
\* false, an empty Table and empty ColumnDefinitions.
C9_FailureGivesEmptyRenderableState ==
    [][ResumesWithFailure =>
          /\ ~parseCSV(settled.response).thrown
          /\ parseCSV(settled.response).value = <<>>
          /\ ~loading'
          /\ data' = <<>>
          /\ columns' = <<>>]_vars

\* a fetch has failed after an earlier table was loaded and sorted: nothing
\* is loading and the Table and the ColumnDefinitions are empty
C9_Witness ==
    /\ ~loading
    /\ settled = Null
    /\ inflight = <<>>
    /\ data = <<>>
    /\ columns = <<>>
    /\ sortConfig # Null

----------------------------------------------------------------------------
(* C11 *)

\* the names the selector forces to the start and to the end of the list
ForcedStartNames == IF activeTab = "material" THEN <<StrMaterial, StrMaterials>> ELSE <<>>
ForcedEndNames == IF activeTab = "worklog" THEN <<StrWorkDescription>> ELSE <<>>

\* a column whose key or label is the name, whatever the case
NamedLike(col, names) ==
    \E i \in 1..Len(names) :
        \/ Trim(ToLowerCase(col.key)) = ToLowerCase(names[i])
        \/ Trim(ToLowerCase(col.label)) = ToLowerCase(names[i])

\* the index of a column definition among the columns given to the selector
IndexInColumns(col) == CHOOSE i \in 1..Len(columns) : columns[i] = col

\* the selected list is the forced-start columns, then columns that are
\* neither, in the order they have among the columns, then the forced-end ones
ComposedStartAutoEnd ==
    LET forcedStart == SelectSeq(columns, LAMBDA col : NamedLike(col, ForcedStartNames))
        forcedEnd == SelectSeq(columns, LAMBDA col : NamedLike(col, ForcedEndNames))
        from == Len(forcedStart) + 1
        to == Len(output) - Len(forcedEnd)
    IN  /\ Len(output) >= Len(forcedStart) + Len(forcedEnd)
        /\ SubSeq(output, 1, Len(forcedStart)) = forcedStart
        /\ SubSeq(output, to + 1, Len(output)) = forcedEnd
        /\ \A p \in from..to :
               /\ \E i \in 1..Len(columns) : columns[i] = output[p]
               /\ ~NamedLike(output[p], ForcedStartNames)
               /\ ~NamedLike(output[p], ForcedEndNames)
        /\ \A p, q \in from..to :
               p < q => IndexInColumns(output[p]) < IndexInColumns(output[q])

\* every column like "Work Description" is selected, and only such columns
\* come after it
WorkDescriptionLast ==
    \A k \in 1..Len(columns) :
        NamedLike(columns[k], <<StrWorkDescription>>) =>
            \E p \in 1..Len(output) :
                /\ output[p] = columns[k]
                /\ \A q \in (p + 1)..Len(output) :
                       NamedLike(output[q], <<StrWorkDescription>>)

\* C11: for the worklog report a column matching "Work Description" (by key
\* or label, whatever the case) that is among the columns given to the
\* selector is in the selected list with no auto-selected or forced-start
\* column after it; the selected list always is the forced-start columns, then
\* the auto-selected columns in original column order, then the forced-end ones.
C11_WorkDescriptionLastListComposed ==
    pc = "done" =>
        /\ ComposedStartAutoEnd
        /\ (activeTab = "worklog" => WorkDescriptionLast)

\* the worklog selector has placed "Work Description" after auto-selected columns
C11_Witness ==
    /\ pc = "done"
    /\ activeTab = "worklog"
    /\ Len(output) >= 3
    /\ NamedLike(output[Len(output)], <<StrWorkDescription>>)
    /\ ~NamedLike(output[1], <<StrWorkDescription>>)
    /\ IndexInColumns(output[Len(output)]) < IndexInColumns(output[1])

----------------------------------------------------------------------------
(* C12 *)

\* the days from 1970-01-01 to the first day of a year, counted year by year:
\* 365 days for each, and one more for each leap year
LeapYearsBefore(year) == (year - 1) \div 4 - (year - 1) \div 100 + (year - 1) \div 400
DaysBeforeYear(year) ==
    (365 * (year - 1) + LeapYearsBefore(year)) - (365 * 1969 + LeapYearsBefore(1970))

\* the days from the first day of a year to the first day of its month
RECURSIVE DaysBeforeMonth(_, _)
DaysBeforeMonth(year, month) ==
    IF month = 1 THEN 0
    ELSE DaysBeforeMonth(year, month - 1) + DaysInMonth(year, month - 1)

\* the year a third number stands for
YearRead(n) == IF n < 100 THEN 2000 + n ELSE n

\* the instant that is seconds after the start of the day-th day of a month
InstantOf(year, month, day, seconds) ==
    <<DaysBeforeYear(year) + DaysBeforeMonth(year, month) + (day - 1) + seconds \div 86400,
      seconds % 86400>>

\* the timestamp of the string read day first
DayFirstTimestamp(in) ==
    InstantOf(YearRead(DecimalValue(in.third)), DecimalValue(in.second),
              DecimalValue(in.first),
              in.tail.hms[1] * 3600 + in.tail.hms[2] * 60 + in.tail.hms[3])

\* C12: for every string matching the numeric day/month/year pattern whose
\* second number is in 1..12 and whose first number is in 1..31, parseDate
\* returns the timestamp with day = first number and month = second number
\* (a two-digit year read as 2000+year), not the generic parser's reading;
\* when the pattern does not match or the range check fails, it returns the
\* generic parser's result (or not-a-date).
C12_DayFirstBeforeGenericParser ==
    pc = "done" =>
        IF ReadByRegex(input) /\ InRange(input)
        THEN output = DayFirstTimestamp(input)
        ELSE output = DateParse(Trim(DateText(input)))

\* parseDate has read a string day first that the generic parser reads month first
C12_Witness ==
    /\ pc = "done"
    /\ ReadByRegex(input) /\ InRange(input)
    /\ USShaped(input)
    /\ DecimalValue(input.first) # DecimalValue(input.second)
    /\ DecimalValue(input.first) <= 12
    /\ output = DayFirstTimestamp(input)
    /\ ~isNaN(DateParse(Trim(DateText(input))))
    /\ output # DateParse(Trim(DateText(input)))

----------------------------------------------------------------------------
(* C13 *)

\* the rows remaining after filtering and search
RowsRemaining == processedData(filteredData(data, filters), searchTerm, Null, columns)

\* C13: in every step of a session of filter, search, page-size and
\* page-navigation events, the page index is 1 after the step when the step
\* changes the number of rows remaining after filtering and search, the page
\* size or the search term
C13_PageResetOnRowCountChange ==
    [][(\/ Len(RowsRemaining') # Len(RowsRemaining)
        \/ entriesPerPage' # entriesPerPage
        \/ searchTerm' # searchTerm) => currentPage' = 1]_vars

\* what the effect does: the page index is 1 after a step that changes the
\* number of rows App hands to DataTable (the rows after filtering, before the
\* search), the page size or the search term
C13_PageResetOnTableRowsChange ==
    [][(\/ Len(filteredData(data', filters')) # Len(filteredData(data, filters))
        \/ entriesPerPage' # entriesPerPage
        \/ searchTerm' # searchTerm) => currentPage' = 1]_vars

----------------------------------------------------------------------------
(* C14 *)

\* the rows from index first (inclusive) to index last (exclusive) of a
\* sequence, indices counted from 0 and cut at the end of the sequence
Window(rows, first, last) ==
    [i \in 1..Max(0, Min(last, Len(rows)) - first) |-> rows[first + i]]

\* whether the rows shown are the rows [(page - 1) * size, page * size) of the
\* sequence, and what has been handed to the export sink is the sequence
ShownAndExported(whole) ==
    /\ currentEntries(whole, currentPage, entriesPerPage)
           = Window(whole, (currentPage - 1) * entriesPerPage, currentPage * entriesPerPage)
    /\ pc = "export" =>
           /\ Len(output.body) = Len(whole)
           /\ \A r \in 1..Len(whole) : \A c \in 1..Len(columns) :
                  output.body[r][c] = Get(whole[r], columns[c].key)

\* C14: what the Download button hands to the export sink is, row by row and
\* in the same order, the whole sequence that remains after filtering, search
\* and sort, whatever the page index and the page size, while the rows shown
\* are the rows [(page - 1) * size, page * size) of that same sequence
C14_ExportIsWholeSequenceWindowIsSlice ==
    TableShown => ShownAndExported(Processed)

\* an export from the second page of a filtered, searched and sorted table
\* that has more rows than the page shows
C14_Witness ==
    /\ TableShown
    /\ pc = "export"
    /\ currentPage = 2
    /\ sortConfig # Null
    /\ searchTerm # <<>>
    /\ \E k \in 1..Len(filters) : filters[k][2] # <<>>
    /\ Len(currentEntries(Processed, currentPage, entriesPerPage)) = 1
    /\ Len(output.body) = SiteRows

----------------------------------------------------------------------------
(* C17 *)

\* whether the page index is within the pages of the sequence, and some row
\* of the sequence is shown unless it has none
PageWithin(whole) ==
    /\ 1 <= currentPage
    /\ currentPage <= Max(1, totalPages(whole, entriesPerPage))
    /\ whole # <<>> => currentEntries(whole, currentPage, entriesPerPage) # <<>>

\* C17: after every sequence of filter, search, sort, page-size,
\* page-navigation and data-load events, the page index p satisfies
\* 1 <= p <= max(1, totalPages), so that some row is shown whenever a row
\* remains after filtering and search
C17_PageIndexWithinTotalPages ==
    PageWithin(Processed)

\* what the code keeps: the page index is at least 1 and no greater than the
\* number of pages the rows App hands to DataTable (the rows before the
\* search) would fill
C17_PageIndexWithinTableRows ==
    /\ 1 <= currentPage
    /\ currentPage <= Max(1, totalPages(filteredData(data, filters), entriesPerPage))

----------------------------------------------------------------------------
(* C15 *)

\* no fetch is in flight and no fetchData is about to resume
NoFetchPending ==
    /\ inflight = <<>>
    /\ settled = Null

\* C15: whatever the report switches and the order in which the responses
\* arrive, once no fetch is in flight the session holds no row, or the Table
\* and the ColumnDefinitions of the sheet of the active report
C15_SettledDataIsOfActiveReport ==
    NoFetchPending =>
        \/ data = <<>>
        \/ /\ data = ParseText(SheetOf(activeTab))
           /\ columns = ReportColumns(activeTab, identifyColumns(data))

----------------------------------------------------------------------------
(* C16 *)

\* whether the records of the table have a field of this name
IsFieldOf(table, key) ==
    \E i \in 1..Len(table) : \E f \in 1..Len(table[i]) : table[i][f][1] = key

\* C16: in every state where nothing is loading and the Table has rows, each
\* key of FilterState with a non-empty selected value is a field name of the
\* records of the Table and its value is one of the values the Table has in
\* that field: no filter chosen over another report's data constrains it
C16_FiltersAreOfCurrentTable ==
    (~loading /\ settled = Null /\ data # <<>>) =>
        \A k \in 1..Len(filters) :
            filters[k][2] # <<>> =>
                /\ IsFieldOf(data, filters[k][1])
                /\ filters[k][2] \in UniqueValues(data, filters[k][1])
====
